---- MODULE Spec2Model ----
(***************************************************************************)
(* pgp-encrypt (src/src/main.rs): run_with_args as a state machine over a  *)
(* small filesystem.                                                       *)
(*                                                                         *)
(* A file of the input tree is a relative path <<dir, stem, ext>>; ext ""  *)
(* is "no extension".  A path on disk is <<root, dir, stem, ext>>, root    *)
(* "in" (opt.folder) or "out" (opt.output when it is another directory).   *)
(***************************************************************************)
EXTENDS Naturals, Sequences, FiniteSets

\* ---------------------------------------------------------------- bounds
MaxFiles == 2

\* ------------------------------------------------------ program constants
EXIT_SUCCESS == 0
EXIT_INVALID_INPUT == 1
EXIT_KEY_ERROR == 2
EXIT_ENCRYPTION_ERROR == 3
EXIT_IO_ERROR == 4

\* clap's exit status for a usage error (a required argument is missing);
\* Opt::parse_from ends the process itself in that case.
ClapUsageExit == 2

\* ------------------------------------------------------------- universes
Dirs == {"", "sub"}
Stems == {"a", "b"}
Exts == {"txt", "", "pgp", "PGP"}
Files == Dirs \X Stems \X Exts

\* Keys a certificate may bundle: the attributes the recipient filter reads.
Key(id, supported, alive, revoked, transport) ==
    [id |-> id, supported |-> supported, alive |-> alive,
     revoked |-> revoked, transport |-> transport]
GoodKey == Key("good", TRUE, TRUE, FALSE, TRUE)
ExpiredKey == Key("expired", TRUE, FALSE, FALSE, TRUE)
RevokedKey == Key("revoked", TRUE, TRUE, TRUE, TRUE)
SigningKey == Key("signing", TRUE, TRUE, FALSE, FALSE)
UnsupportedKey == Key("unsupported", FALSE, TRUE, FALSE, TRUE)
Certs == {{}, {ExpiredKey}, {RevokedKey}, {SigningKey, UnsupportedKey},
          {GoodKey, RevokedKey}}

\* What the key path holds: nothing, something fs::read fails on, bytes that
\* are no certificate, or a certificate.
KeyFiles ==
    {[state |-> s, cert |-> {}] : s \in {"absent", "unreadable", "garbage"}}
    \cup {[state |-> "cert", cert |-> c] : c \in Certs}

VARIABLES
    outputArg,    \* "missing": no --output; "same": opt.output = opt.folder; "other"
    folderKind,   \* what opt.folder is: "absent", "file", "dir"
    outputInit,   \* what opt.output was before the run (when "other")
    keyFile,      \* what opt.key holds
    tree,         \* regular files under opt.folder before the run
    inSub,        \* the input tree has the subdirectory "sub"
    unreadable,   \* directories of the input tree whose read_dir fails
    outputKind,   \* what opt.output is now (when "other")
    subdirs,      \* existing subdirectories, <<root, dir>>
    disk,         \* path -> content, the regular files that exist
    pc,           \* position in run_with_args
    result,       \* [tag, code]: running, Ok, Err((code, _)) or clap's exit
    recipients,   \* the recipient set
    opened,       \* directories the walk has tried to read
    visited,      \* files the walk has yielded
    log           \* every filesystem and crypto operation made, in order

env == <<outputArg, folderKind, outputInit, keyFile, tree, inSub, unreadable>>
vars == <<outputArg, folderKind, outputInit, keyFile, tree, inSub, unreadable,
          outputKind, subdirs, disk, pc, result, recipients, opened, visited,
          log>>

\* ------------------------------------------------------------ path algebra
\* Path::join of a root and a path relative to it.
Join(root, f) == <<root, f[1], f[2], f[3]>>
\* Path::strip_prefix(&opt.folder) of a path the walk yields.
StripPrefix(p) == <<p[2], p[3], p[4]>>
\* Path::extension: "" stands for None.
Extension(p) == p[Len(p)]
\* Path::with_extension.
WithExtension(p, e) == <<p[1], p[2], p[3], e>>
\* Path::parent, as <<root, dir>>.
Parent(p) == <<p[1], p[2]>>

NoPath == <<"", "", "", "">>
KeyPath == <<"key", "", "", "">>
Plain(f) == [kind |-> "plain", of |-> f, to |-> {}]
Encrypted(f, rs) == [kind |-> "enc", of |-> f, to |-> rs]
Partial(f) == [kind |-> "partial", of |-> f, to |-> {}]

InitialDisk == [p \in {Join("in", f) : f \in tree} |-> Plain(StripPrefix(p))]
InitialSubdirs == IF inSub THEN {<<"in", "sub">>} ELSE {}

\* The root the output is written under.
OutRoot == IF outputArg = "same" THEN "in" ELSE "out"
RootKind(root) == IF root = "in" THEN folderKind ELSE outputKind
DirExists(d) ==
    IF d[2] = "" THEN RootKind(d[1]) = "dir" ELSE d \in subdirs

Running == [tag |-> "running", code |-> EXIT_SUCCESS]
Ok == [tag |-> "ok", code |-> EXIT_SUCCESS]
Err(code) == [tag |-> "err", code |-> code]
Usage == [tag |-> "usage", code |-> ClapUsageExit]

Op(op, path, src, ok) == [op |-> op, path |-> path, src |-> src, ok |-> ok]

\* ------------------------------------------------------------------- Init
Init ==
    /\ outputArg \in {"missing", "same", "other"}
    /\ folderKind \in {"absent", "file", "dir"}
    /\ outputInit \in IF outputArg = "other" THEN {"absent", "file", "dir"}
                      ELSE {"absent"}
    /\ keyFile \in KeyFiles
    /\ tree \in IF folderKind = "dir"
                THEN {t \in SUBSET Files : Cardinality(t) <= MaxFiles}
                ELSE {{}}
    /\ inSub \in IF folderKind # "dir" THEN {FALSE}
                 ELSE IF \E f \in tree : f[1] = "sub" THEN {TRUE}
                 ELSE BOOLEAN
    /\ unreadable \in {{}} \cup
          {{d} : d \in IF folderKind # "dir" THEN {}
                       ELSE IF inSub THEN {"", "sub"} ELSE {""}}
    /\ outputKind = outputInit
    /\ subdirs = InitialSubdirs
    /\ disk = InitialDisk
    /\ pc = "parse"
    /\ result = Running
    /\ recipients = {}
    /\ opened = {}
    /\ visited = {}
    /\ log = <<>>

Return(r) == pc' = "done" /\ result' = r

\* ------------------------------------------------------------ validation
\* A bug: --output declared optional, the run going on without it.
OutputNeverRequired == FALSE
\* Opt.output is a PathBuf, not an Option: clap refuses a command line without it.
MissingRequiredArg == outputArg = "missing"

\* Opt::parse_from
ParseArgs ==
    /\ pc = "parse"
    /\ IF MissingRequiredArg
       THEN Return(Usage)
       ELSE pc' = "validateInput" /\ UNCHANGED result
    /\ UNCHANGED <<env, outputKind, subdirs, disk, recipients, opened, visited, log>>

\* A bug: the is_dir() test left out.
FolderExistsOnly == folderKind # "absent"
\* opt.folder.exists() && opt.folder.is_dir()
FolderIsDir == folderKind # "absent" /\ folderKind = "dir"

ValidateInput ==
    /\ pc = "validateInput"
    /\ IF ~FolderIsDir
       THEN Return(Err(EXIT_INVALID_INPUT))
       ELSE pc' = "prepareOutput" /\ UNCHANGED result
    /\ UNCHANGED <<env, outputKind, subdirs, disk, recipients, opened, visited, log>>

OutputExists == RootKind(OutRoot) # "absent"
OutputIsDir == RootKind(OutRoot) = "dir"

\* The output folder is created when absent (create_dir_all may fail), and
\* refused when it exists and is no directory.
PrepareOutput ==
    /\ pc = "prepareOutput"
    /\ IF ~OutputExists
       THEN \E ok \in BOOLEAN :
              /\ log' = Append(log, Op("mkdir", <<OutRoot, "", "", "">>, NoPath, ok))
              /\ IF ok
                 THEN outputKind' = "dir" /\ pc' = "validateKey" /\ UNCHANGED result
                 ELSE Return(Err(EXIT_IO_ERROR)) /\ UNCHANGED outputKind
       ELSE /\ UNCHANGED <<log, outputKind>>
            /\ IF ~OutputIsDir
               THEN Return(Err(EXIT_INVALID_INPUT))
               ELSE pc' = "validateKey" /\ UNCHANGED result
    /\ UNCHANGED <<env, subdirs, disk, recipients, opened, visited>>

\* A bug: the exists() test on the key left out.
KeyNeverChecked == TRUE
\* opt.key.exists()
KeyExists == keyFile.state # "absent"

ValidateKey ==
    /\ pc = "validateKey"
    /\ IF ~KeyExists
       THEN Return(Err(EXIT_INVALID_INPUT))
       ELSE pc' = "loadKey" /\ UNCHANGED result
    /\ UNCHANGED <<env, outputKind, subdirs, disk, recipients, opened, visited, log>>

\* fs::read(&opt.key) succeeds
KeyReadable == keyFile.state \in {"garbage", "cert"}
\* Cert::from_bytes succeeds
KeyParses == keyFile.state = "cert"

LoadKey ==
    /\ pc = "loadKey"
    /\ log' = Append(log, Op("readkey", KeyPath, NoPath, KeyReadable))
    /\ IF ~KeyReadable THEN Return(Err(EXIT_IO_ERROR))
       ELSE IF ~KeyParses THEN Return(Err(EXIT_KEY_ERROR))
       ELSE pc' = "recipients" /\ UNCHANGED result
    /\ UNCHANGED <<env, outputKind, subdirs, disk, recipients, opened, visited>>

\* A bug: the revoked(false) filter left out.
UsableKeysIgnoringRevocation(cert) ==
    {k \in cert : k.supported /\ k.alive /\ k.transport}
\* keys().with_policy().supported().alive().revoked(false)
\*       .for_transport_encryption()
UsableKeys(cert) ==
    {k \in cert : k.supported /\ k.alive /\ ~k.revoked /\ k.transport}

SelectRecipients ==
    /\ pc = "recipients"
    /\ recipients' = UsableKeys(keyFile.cert)
    /\ IF recipients' = {}
       THEN Return(Err(EXIT_KEY_ERROR))
       ELSE pc' = "walk" /\ UNCHANGED result
    /\ UNCHANGED <<env, outputKind, subdirs, disk, opened, visited, log>>

\* ------------------------------------------------------------- traversal
\* WalkDir::new(&opt.folder): depth first, a directory's entries in an order the
\* filesystem chooses, a subdirectory's entries together.  Files the run
\* itself writes into the input tree (opt.output = opt.folder) all have the
\* extension "pgp", so the walk skips them whether it sees them or not; they
\* are not walked here.
InputDirs == {""} \cup (IF inSub THEN {"sub"} ELSE {})
Readable(d) == d \in opened /\ d \notin unreadable
Pending(d) == {f \in tree \ visited : f[1] = d /\ Readable(d)}
\* The files the walk may yield next.
Candidates == IF Pending("sub") # {} THEN Pending("sub") ELSE Pending("")
\* The directories the walk may descend into next.
CanOpen(d) ==
    /\ d \in InputDirs \ opened
    /\ d = "" \/ Readable("")
    /\ Pending("sub") = {}

\* read_dir succeeds: the directory's entries will be yielded.
OpenDir(d) ==
    /\ pc = "walk"
    /\ CanOpen(d)
    /\ d \notin unreadable
    /\ opened' = opened \cup {d}
    /\ log' = Append(log, Op("readdir", <<"in", d, "", "">>, NoPath, TRUE))
    /\ UNCHANGED <<env, outputKind, subdirs, disk, pc, result, recipients, visited>>

\* read_dir fails: the walk yields an Err, which filter_map(|e| e.ok()) drops.
WalkError(d) ==
    /\ pc = "walk"
    /\ CanOpen(d)
    /\ d \in unreadable
    /\ opened' = opened \cup {d}
    /\ log' = Append(log, Op("readdir", <<"in", d, "", "">>, NoPath, FALSE))
    /\ UNCHANGED <<env, outputKind, subdirs, disk, pc, result, recipients, visited>>

\* A bug: the already-encrypted test left out.
NeverEncrypted(f) == FALSE
\* file_path.extension().is_some_and(|ext| ext == "pgp")
IsEncrypted(f) == Extension(f) = "pgp"

SkipEncrypted(f) ==
    /\ pc = "walk"
    /\ f \in Candidates
    /\ IsEncrypted(f)
    /\ visited' = visited \cup {f}
    /\ UNCHANGED <<env, outputKind, subdirs, disk, pc, result, recipients, opened, log>>

\* A bug: the extension replaced on the input path, opt.output never joined.
OutputPathBesideInput(f) == WithExtension(Join("in", f), "pgp")
\* opt.output.join(relative_path).with_extension("pgp")
OutputPath(f) == WithExtension(Join(OutRoot, StripPrefix(Join("in", f))), "pgp")

\* The steps of the loop body at which an operation can fail.  fs::write is
\* File::create (which truncates) and then write_all: it fails either before
\* the file is touched ("open") or after it was created or truncated ("write").
Failures == {"none", "read", "encrypt", "mkdir", "open", "write"}

\* The loop body for one file the walk yields.
ProcessFile(f) ==
    /\ pc = "walk"
    /\ f \in Candidates
    /\ ~IsEncrypted(f)
    /\ visited' = visited \cup {f}
    /\ \E fail \in Failures :
         LET src == Join("in", f)
             data == disk[src]
             ciphertext == [kind |-> "enc", of |-> data.of, to |-> recipients]
             path == OutputPath(f)
             parent == Parent(path)
             rd == <<Op("read", src, src, fail # "read")>>
             enc == <<Op("encrypt", src, src, fail # "encrypt")>>
             mk == <<Op("mkdir", <<parent[1], parent[2], "", "">>, src, fail # "mkdir")>>
             wr == <<Op("write", path, src, fail \notin {"open", "write"})>>
         IN
         \* create_dir_all of a directory that exists succeeds
         /\ fail = "mkdir" => ~DirExists(parent)
         /\ CASE fail = "read" ->
                   /\ log' = log \o rd
                   /\ Return(Err(EXIT_IO_ERROR))
                   /\ UNCHANGED <<subdirs, disk>>
              [] fail = "encrypt" ->
                   /\ log' = log \o rd \o enc
                   /\ Return(Err(EXIT_ENCRYPTION_ERROR))
                   /\ UNCHANGED <<subdirs, disk>>
              [] fail = "mkdir" ->
                   /\ log' = log \o rd \o enc \o mk
                   /\ Return(Err(EXIT_IO_ERROR))
                   /\ UNCHANGED <<subdirs, disk>>
              [] fail = "open" ->
                   /\ log' = log \o rd \o enc \o mk \o wr
                   /\ subdirs' = IF parent[2] = "" THEN subdirs ELSE subdirs \cup {parent}
                   /\ Return(Err(EXIT_IO_ERROR))
                   /\ UNCHANGED disk
              [] fail = "write" ->
                   /\ log' = log \o rd \o enc \o mk \o wr
                   /\ subdirs' = IF parent[2] = "" THEN subdirs ELSE subdirs \cup {parent}
                   /\ disk' = [p \in DOMAIN disk \cup {path} |->
                                 IF p = path THEN Partial(data.of) ELSE disk[p]]
                   /\ Return(Err(EXIT_IO_ERROR))
              [] fail = "none" ->
                   /\ log' = log \o rd \o enc \o mk \o wr
                   /\ subdirs' = IF parent[2] = "" THEN subdirs ELSE subdirs \cup {parent}
                   /\ disk' = [p \in DOMAIN disk \cup {path} |->
                                 IF p = path THEN ciphertext ELSE disk[p]]
                   /\ UNCHANGED <<pc, result>>
    /\ UNCHANGED <<env, outputKind, recipients, opened>>

\* The iterator is exhausted: Ok(()).
Finish ==
    /\ pc = "walk"
    /\ \A d \in InputDirs : ~CanOpen(d)
    /\ Candidates = {}
    /\ Return(Ok)
    /\ UNCHANGED <<env, outputKind, subdirs, disk, recipients, opened, visited, log>>

Next ==
    \/ ParseArgs
    \/ ValidateInput
    \/ PrepareOutput
    \/ ValidateKey
    \/ LoadKey
    \/ SelectRecipients
    \/ \E d \in Dirs : OpenDir(d)
    \/ \E d \in Dirs : WalkError(d)
    \/ \E f \in Files : SkipEncrypted(f)
    \/ \E f \in Files : ProcessFile(f)
    \/ Finish

Spec == Init /\ [][Next]_vars

\* ------------------------------------------------------------- vocabulary
\* Files of the input tree whose extension is not "pgp".
Eligible == {f \in tree : f[3] # "pgp"}
\* Entries under the output root when it is a directory of its own.
OutFiles == {p \in DOMAIN disk : p[1] = "out"}
OutSubdirs == {d \in subdirs : d[1] = "out"}
\* Operations of the loop body (they name the file they are made for).
FileOps == {i \in DOMAIN log : log[i].src # NoPath}
Writes == {i \in DOMAIN log : log[i].op = "write" /\ log[i].ok}
TouchesInput ==
    \E i \in DOMAIN log : log[i].op \in {"readdir", "read", "encrypt", "write"}
HasUsableKey ==
    /\ keyFile.state = "cert"
    /\ \E k \in keyFile.cert : k.supported /\ k.alive /\ ~k.revoked /\ k.transport
Untouched ==
    /\ disk = InitialDisk
    /\ subdirs = InitialSubdirs
Done == pc = "done"

\* C1: a run in which no operation fails and that returns Ok into an output
\* root of its own leaves as many files under it as the input tree has files
\* without the extension "pgp", and reads or encrypts no file with the
\* extension "pgp".
C1_OutputsMatchEligible ==
    (Done /\ result = Ok /\ outputArg = "other"
       /\ \A i \in DOMAIN log : log[i].ok) =>
        /\ Cardinality(OutFiles) =
             Cardinality(tree) - Cardinality({f \in tree : f[3] = "pgp"})
        /\ \A i \in FileOps : log[i].src[4] # "pgp"

\* C2: when the input path is missing or no directory, the run returns
\* InvalidInput (exit code 1) and has done nothing: no directory created,
\* the key not read, no file read or written.
C2_InvalidInputTouchesNothing ==
    (outputArg # "missing" /\ folderKind # "dir") =>
        /\ pc \in {"parse", "validateInput", "done"}
        /\ Done => result = Err(EXIT_INVALID_INPUT)
        /\ log = <<>>
        /\ outputKind = outputInit
        /\ Untouched

C2_Witness ==
    /\ Done
    /\ folderKind = "file"
    /\ outputArg = "other" /\ outputInit = "absent"
    /\ keyFile.state = "absent"
    /\ result = Err(EXIT_INVALID_INPUT)

\* C3: with a valid input directory and a usable output path, a key file
\* that does not exist gives InvalidInput (exit code 1) and one whose bytes are
\* no certificate gives KeyError (exit code 2); either way no input file is
\* read and no ciphertext is written.
C3_BadKeyFile ==
    (outputArg # "missing" /\ folderKind = "dir"
       /\ keyFile.state \in {"absent", "garbage"}) =>
        /\ ~TouchesInput
        /\ visited = {}
        /\ Untouched
        /\ (Done /\ OutputIsDir) =>
             result = Err(IF keyFile.state = "absent" THEN EXIT_INVALID_INPUT
                          ELSE EXIT_KEY_ERROR)

C3_Witness ==
    /\ Done
    /\ keyFile.state = "garbage"
    /\ outputArg = "other" /\ outputInit = "absent" /\ OutputIsDir
    /\ Eligible # {}
    /\ result = Err(EXIT_KEY_ERROR)
    /\ \E i \in DOMAIN log : log[i].op = "readkey" /\ log[i].ok

\* C4: a certificate without any supported, alive, non-revoked key capable of
\* transport encryption gives KeyError (exit code 2) before any file is
\* touched: the traversal never starts, nothing is read, nothing is written.
C4_NoRecipientBeforeFiles ==
    (outputArg # "missing" /\ folderKind = "dir"
       /\ keyFile.state = "cert" /\ ~HasUsableKey) =>
        /\ pc # "walk"
        /\ opened = {} /\ visited = {}
        /\ ~TouchesInput
        /\ Untouched
        /\ (Done /\ OutputIsDir) => result = Err(EXIT_KEY_ERROR)

C4_Witness ==
    /\ Done
    /\ keyFile.state = "cert" /\ keyFile.cert = {RevokedKey}
    /\ Eligible # {}
    /\ OutputIsDir
    /\ result = Err(EXIT_KEY_ERROR)

\* The content the last successful write before operation i left at path p.
LastWrite(p, i) ==
    LET ws == {j \in Writes : j < i /\ log[j].path = p}
    IN CHOOSE j \in ws : \A k \in ws : k <= j

\* C5: the loop is fail-fast.  A failed read, encryption or write is the last
\* operation of the run, which returns an error at once; no ciphertext is
\* written for a file whose read or encryption failed; and every output
\* written for an earlier file still holds that ciphertext.
C5_FailFast ==
    \A i \in FileOps : (outputArg = "other" /\ ~log[i].ok) =>
        /\ i = Len(log)
        /\ Done /\ result.tag = "err"
        /\ log[i].op \in {"read", "encrypt"} =>
             \A j \in DOMAIN log : log[j].op = "write" => log[j].src # log[i].src
        /\ \A j \in Writes : j < i =>
             LET last == LastWrite(log[j].path, i)
             IN disk[log[j].path] =
                  Encrypted(StripPrefix(log[last].src), recipients)

\* C5, without the last clause: a failed operation ends the run at once, is
\* not retried, and no ciphertext is written for a file whose read or
\* encryption failed.
C5_StopsAtFirstFailure ==
    \A i \in FileOps : ~log[i].ok =>
        /\ i = Len(log)
        /\ Done /\ result.tag = "err"
        /\ log[i].op \in {"read", "encrypt"} =>
             \A j \in DOMAIN log : log[j].op = "write" => log[j].src # log[i].src

\* C6: every file written is written at the output root joined with the
\* file's relative path, its extension replaced by (or set to) "pgp", after the
\* parent directory was created; and two distinct input files are written to
\* two distinct paths.
C6_MirroredPaths ==
    \A i \in Writes : outputArg = "other" =>
        /\ log[i].path = <<OutRoot, log[i].src[2], log[i].src[3], "pgp">>
        /\ i > 1 /\ log[i - 1].op = "mkdir" /\ log[i - 1].ok
        /\ log[i - 1].path = <<OutRoot, log[i].src[2], "", "">>
        /\ \A j \in Writes : log[j].src # log[i].src => log[j].path # log[i].path

\* C6, without the last clause: the path each file is written at.
C6_PathOfEachFile ==
    \A i \in Writes :
        /\ log[i].path = <<OutRoot, log[i].src[2], log[i].src[3], "pgp">>
        /\ i > 1 /\ log[i - 1].op = "mkdir" /\ log[i - 1].ok
        /\ log[i - 1].path = <<OutRoot, log[i].src[2], "", "">>

\* C7: when no file of the input directory is to be encrypted (it is empty, or
\* all its files have the extension "pgp"), the output directory never gets
\* an entry, and the run, given a usable output path and key, returns Ok.
C7_NothingToEncrypt ==
    (outputArg = "other" /\ folderKind = "dir" /\ Eligible = {}) =>
        /\ OutFiles = {} /\ OutSubdirs = {}
        /\ (Done /\ OutputIsDir /\ HasUsableKey) => result = Ok

C7_Witness ==
    /\ Done
    /\ result = Ok
    /\ outputArg = "other"
    /\ tree = {<<"", "a", "pgp">>, <<"sub", "b", "pgp">>}
    /\ visited = tree
    /\ OutFiles = {} /\ OutSubdirs = {}

\* C8: no run over an input tree with files to encrypt returns Ok after a
\* filesystem or crypto operation has failed.
C8_EveryFailureIsFatal ==
    (Done /\ result = Ok /\ outputArg = "other" /\ Eligible # {}) => \A i \in DOMAIN log : log[i].ok

C10_Frame ==
    /\ DOMAIN InitialDisk \subseteq DOMAIN disk
    /\ \A p \in DOMAIN disk :
         \/ p \in DOMAIN InitialDisk /\ disk[p] = InitialDisk[p]
         \/ p[1] = OutRoot /\ p[4] = "pgp"
    /\ InitialSubdirs \subseteq subdirs
    /\ \A d \in subdirs \ InitialSubdirs : d[1] = OutRoot
    /\ outputKind = outputInit \/ (outputInit = "absent" /\ outputKind = "dir")
    /\ outputArg # "same" =>
         /\ \A p \in DOMAIN disk :
              p[1] = "in" => p \in DOMAIN InitialDisk /\ disk[p] = InitialDisk[p]
         /\ \A d \in subdirs : d[1] = "in" => d \in InitialSubdirs

C10_Witness ==
    /\ Done
    /\ result = Ok
    /\ outputArg = "other" /\ outputInit = "absent"
    /\ <<"out", "sub">> \in subdirs
    /\ \E p \in OutFiles : p[2] = "sub" /\ disk[p].kind = "enc"

====
